---- MODULE Spec2Model ----
(***************************************************************************)
(* Model of the plant-configuration catalog (data.py) and of its entry     *)
(* point (Project.py).                                                     *)
(*                                                                         *)
(* Python objects live in a heap: a sequence of objects, an object's       *)
(* address being its index.  An object is [kind, cls, keys, vals]:         *)
(*   kind "dataclass": an instance of class cls, keys its field names in   *)
(*                     declaration order, vals the field values;           *)
(*   kind "dict":      keys in insertion order, vals the mapped values;    *)
(*   kind "list":      vals the items.                                     *)
(* A value is [t, n, s]: a float (n is the value in thousandths, which     *)
(* holds every literal of data.py exactly), None, a str (s), or a          *)
(* reference to a heap object (n is the address).                          *)
(***************************************************************************)
EXTENDS Integers, Sequences, FiniteSets

VARIABLES heap, module, results, returned, mutations, observed, exc,
          dunder_name, pc, stdout

vars == <<heap, module, results, returned, mutations, observed, exc,
          dunder_name, pc, stdout>>

---------------------------------------------------------------------------
(* Bounds of the model. *)

\* as_dict_list results a caller keeps at the same time
MaxResults == 2

\* modifications a caller makes to mutable objects it was handed
MaxMutations == 1

\* longest catalog list a misusing caller grows
MaxCatalogLen == 3

---------------------------------------------------------------------------
(* Values *)

Float(milli) == [t |-> "float", n |-> milli, s |-> ""]

None == [t |-> "None", n |-> 0, s |-> ""]

Str(x) == [t |-> "str", n |-> 0, s |-> x]

Ref(a) == [t |-> "ref", n |-> a, s |-> ""]

IsRef(v) == v.t = "ref"

Obj(kind, cls, keys, vals) ==
    [kind |-> kind, cls |-> cls, keys |-> keys, vals |-> vals]

\* position of key k in a key sequence, 0 when absent
IndexOf(keys, k) ==
    IF \E i \in 1..Len(keys) : keys[i] = k
    THEN CHOOSE i \in 1..Len(keys) : keys[i] = k
    ELSE 0

\* obj[k] of a dict, getattr(obj, k) of a dataclass instance
Get(obj, k) == obj.vals[IndexOf(obj.keys, k)]

---------------------------------------------------------------------------
(* The six record classes *)

ClassNames ==
    {"InputData", "OutputData", "EnergyTechnicalData", "FinancialData",
     "TechnologySpecificData", "PlantConfiguration"}

\* dataclasses.fields(cls): the field names in declaration order
fields(cls) ==
    CASE cls = "InputData" ->
           <<"electricity_pct_total_input_mwh",
             "heat_pct_total_input_mwh",
             "heat_loss_pct_total_input_mwh",
             "water_for_electrolysis_kg_per_mwh_input">>
      [] cls = "OutputData" ->
           <<"hydrogen_output_pct_total_output_mwh",
             "hydrogen_ch2_pct_total_output",
             "hydrogen_for_district_heating_pct_points_of_heat_loss",
             "oxygen_output_pct_total_output_mwh",
             "oxygen_recovered_for_district_heating_pct_points_of_heat_loss",
             "heat_output_pct_total_output_mwh",
             "hydrogen_yield_kg_per_mwh_input_e",
             "oxygen_yield_kg_per_mwh_input_e">>
      [] cls = "EnergyTechnicalData" ->
           <<"total_plant_size_mw_input_e",
             "planned_outage_days_per_annum",
             "technical_lifetime_years",
             "input",
             "output">>
      [] cls = "FinancialData" ->
           <<"specific_investment_eur_per_kw_total_input",
             "specific_investment_eur_per_kg_per_hour_hydrogen_output",
             "o_and_m_pct_of_specific_investment_per_year">>
      [] cls = "TechnologySpecificData" ->
           <<"current_density_a_per_cm2",
             "footprint_m2_per_mw_input_e",
             "degradation_rate_pct_per_annum",
             "frequency_of_stack_replacement_years">>
      [] cls = "PlantConfiguration" ->
           <<"name", "energy_technical", "financial", "technology_specific">>

\* a decorator that lost frozen=True on the innermost record class
frozen_InputData_unset(cls) == cls # "InputData"

\* @dataclass(frozen=True) on each of the six classes
frozen(cls) ==
    CASE cls = "InputData" -> TRUE
      [] cls = "OutputData" -> TRUE
      [] cls = "EnergyTechnicalData" -> TRUE
      [] cls = "FinancialData" -> TRUE
      [] cls = "TechnologySpecificData" -> TRUE
      [] cls = "PlantConfiguration" -> TRUE

\* A constructor call with keyword arguments, as written in the source
Call(cls, kwargs) == [cls |-> cls, kwargs |-> kwargs]

IsCall(x) == "cls" \in DOMAIN x

\* Evaluate a constructor expression: the argument expressions first (the
\* source writes them in field order), then the generated __init__ stores
\* each keyword argument as the field of that name.
\* The result is [heap, val]: the heap after the allocations and the value.
\* Python finishes one argument before it starts the next: the test
\* Len(r.heap) >= 0, which always holds, has the heap of argument i built
\* before argument i + 1 is evaluated.
RECURSIVE construct(_, _), construct_args(_, _, _, _)
construct(h, expr) ==
    IF IsCall(expr)
    THEN LET r == construct_args(h, expr, 1, <<>>)
             h2 == Append(r.heap,
                          Obj("dataclass", expr.cls, fields(expr.cls), r.val))
         IN  [heap |-> h2, val |-> Ref(Len(h2))]
    ELSE [heap |-> h, val |-> expr]

construct_args(h, expr, i, acc) ==
    IF i > Len(fields(expr.cls))
    THEN [heap |-> h, val |-> acc]
    ELSE LET r == construct(h, expr.kwargs[fields(expr.cls)[i]])
         IN  IF Len(r.heap) >= 0
             THEN construct_args(r.heap, expr, i + 1, Append(acc, r.val))
             ELSE r

---------------------------------------------------------------------------
(* The data instances *)

\* the AEC record with the unknown heat share written as a measured zero
AEC_100MW_ENS_2025_heat_zero ==
    Call("PlantConfiguration", [
        name |->
            Str("AEC 100 MW (ENS, 2025)"),
        energy_technical |->
            Call("EnergyTechnicalData", [
                total_plant_size_mw_input_e |->
                    Float(100000),
                planned_outage_days_per_annum |->
                    Float(20000),
                technical_lifetime_years |->
                    Float(20000),
                input |->
                    Call("InputData", [
                        electricity_pct_total_input_mwh |->
                            Float(100000),
                        heat_pct_total_input_mwh |->
                            Float(0),
                        heat_loss_pct_total_input_mwh |->
                            Float(0),
                        water_for_electrolysis_kg_per_mwh_input |->
                            Float(89150)]),
                output |->
                    Call("OutputData", [
                        hydrogen_output_pct_total_output_mwh |->
                            Float(58700),
                        hydrogen_ch2_pct_total_output |->
                            Float(32300),
                        hydrogen_for_district_heating_pct_points_of_heat_loss |->
                            Float(26400),
                        oxygen_output_pct_total_output_mwh |->
                            Float(40900),
                        oxygen_recovered_for_district_heating_pct_points_of_heat_loss |->
                            Float(0),
                        heat_output_pct_total_output_mwh |->
                            Float(400),
                        hydrogen_yield_kg_per_mwh_input_e |->
                            Float(20000),
                        oxygen_yield_kg_per_mwh_input_e |->
                            Float(141790)])]),
        financial |->
            Call("FinancialData", [
                specific_investment_eur_per_kw_total_input |->
                    Float(1161300),
                specific_investment_eur_per_kg_per_hour_hydrogen_output |->
                    Float(5585150),
                o_and_m_pct_of_specific_investment_per_year |->
                    Float(15000)]),
        technology_specific |->
            Call("TechnologySpecificData", [
                current_density_a_per_cm2 |->
                    Float(500),
                footprint_m2_per_mw_input_e |->
                    Float(10000000),
                degradation_rate_pct_per_annum |->
                    Float(125),
                frequency_of_stack_replacement_years |->
                    Float(10000)])])

\* AEC_100MW_ENS_2025 = PlantConfiguration(...); Float(n) is n / 1000
AEC_100MW_ENS_2025 ==
    Call("PlantConfiguration", [
        name |->
            Str("AEC 100 MW (ENS, 2025)"),
        energy_technical |->
            Call("EnergyTechnicalData", [
                total_plant_size_mw_input_e |->
                    Float(100000),
                planned_outage_days_per_annum |->
                    Float(20000),
                technical_lifetime_years |->
                    Float(20000),
                input |->
                    Call("InputData", [
                        electricity_pct_total_input_mwh |->
                            Float(100000),
                        heat_pct_total_input_mwh |->
                            None,
                        heat_loss_pct_total_input_mwh |->
                            Float(0),
                        water_for_electrolysis_kg_per_mwh_input |->
                            Float(89150)]),
                output |->
                    Call("OutputData", [
                        hydrogen_output_pct_total_output_mwh |->
                            Float(58700),
                        hydrogen_ch2_pct_total_output |->
                            Float(32300),
                        hydrogen_for_district_heating_pct_points_of_heat_loss |->
                            Float(26400),
                        oxygen_output_pct_total_output_mwh |->
                            Float(40900),
                        oxygen_recovered_for_district_heating_pct_points_of_heat_loss |->
                            Float(0),
                        heat_output_pct_total_output_mwh |->
                            Float(400),
                        hydrogen_yield_kg_per_mwh_input_e |->
                            Float(20000),
                        oxygen_yield_kg_per_mwh_input_e |->
                            Float(141790)])]),
        financial |->
            Call("FinancialData", [
                specific_investment_eur_per_kw_total_input |->
                    Float(1161300),
                specific_investment_eur_per_kg_per_hour_hydrogen_output |->
                    Float(5585150),
                o_and_m_pct_of_specific_investment_per_year |->
                    Float(15000)]),
        technology_specific |->
            Call("TechnologySpecificData", [
                current_density_a_per_cm2 |->
                    Float(500),
                footprint_m2_per_mw_input_e |->
                    Float(10000000),
                degradation_rate_pct_per_annum |->
                    Float(125),
                frequency_of_stack_replacement_years |->
                    Float(10000)])])

\* the PEM record with the AEC stack-replacement interval copied over
PEM_100MW_ENS_2025_aec_stack ==
    Call("PlantConfiguration", [
        name |->
            Str("PEM 100 MW (ENS, 2025)"),
        energy_technical |->
            Call("EnergyTechnicalData", [
                total_plant_size_mw_input_e |->
                    Float(100000),
                planned_outage_days_per_annum |->
                    Float(20000),
                technical_lifetime_years |->
                    Float(20000),
                input |->
                    Call("InputData", [
                        electricity_pct_total_input_mwh |->
                            Float(100000),
                        heat_pct_total_input_mwh |->
                            None,
                        heat_loss_pct_total_input_mwh |->
                            Float(0),
                        water_for_electrolysis_kg_per_mwh_input |->
                            Float(91820)]),
                output |->
                    Call("OutputData", [
                        hydrogen_output_pct_total_output_mwh |->
                            Float(73300),
                        hydrogen_ch2_pct_total_output |->
                            Float(25000),
                        hydrogen_for_district_heating_pct_points_of_heat_loss |->
                            Float(30000),
                        oxygen_output_pct_total_output_mwh |->
                            Float(25700),
                        oxygen_recovered_for_district_heating_pct_points_of_heat_loss |->
                            Float(0),
                        heat_output_pct_total_output_mwh |->
                            Float(1000),
                        hydrogen_yield_kg_per_mwh_input_e |->
                            Float(20950),
                        oxygen_yield_kg_per_mwh_input_e |->
                            Float(148530)])]),
        financial |->
            Call("FinancialData", [
                specific_investment_eur_per_kw_total_input |->
                    Float(1368200),
                specific_investment_eur_per_kg_per_hour_hydrogen_output |->
                    Float(6876800),
                o_and_m_pct_of_specific_investment_per_year |->
                    Float(15000)]),
        technology_specific |->
            Call("TechnologySpecificData", [
                current_density_a_per_cm2 |->
                    Float(2000),
                footprint_m2_per_mw_input_e |->
                    Float(7000000),
                degradation_rate_pct_per_annum |->
                    Float(125),
                frequency_of_stack_replacement_years |->
                    Float(10000)])])

\* PEM_100MW_ENS_2025 = PlantConfiguration(...); Float(n) is n / 1000
PEM_100MW_ENS_2025 ==
    Call("PlantConfiguration", [
        name |->
            Str("PEM 100 MW (ENS, 2025)"),
        energy_technical |->
            Call("EnergyTechnicalData", [
                total_plant_size_mw_input_e |->
                    Float(100000),
                planned_outage_days_per_annum |->
                    Float(20000),
                technical_lifetime_years |->
                    Float(20000),
                input |->
                    Call("InputData", [
                        electricity_pct_total_input_mwh |->
                            Float(100000),
                        heat_pct_total_input_mwh |->
                            None,
                        heat_loss_pct_total_input_mwh |->
                            Float(0),
                        water_for_electrolysis_kg_per_mwh_input |->
                            Float(91820)]),
                output |->
                    Call("OutputData", [
                        hydrogen_output_pct_total_output_mwh |->
                            Float(73300),
                        hydrogen_ch2_pct_total_output |->
                            Float(25000),
                        hydrogen_for_district_heating_pct_points_of_heat_loss |->
                            Float(30000),
                        oxygen_output_pct_total_output_mwh |->
                            Float(25700),
                        oxygen_recovered_for_district_heating_pct_points_of_heat_loss |->
                            Float(0),
                        heat_output_pct_total_output_mwh |->
                            Float(1000),
                        hydrogen_yield_kg_per_mwh_input_e |->
                            Float(20950),
                        oxygen_yield_kg_per_mwh_input_e |->
                            Float(148530)])]),
        financial |->
            Call("FinancialData", [
                specific_investment_eur_per_kw_total_input |->
                    Float(1368200),
                specific_investment_eur_per_kg_per_hour_hydrogen_output |->
                    Float(6876800),
                o_and_m_pct_of_specific_investment_per_year |->
                    Float(15000)]),
        technology_specific |->
            Call("TechnologySpecificData", [
                current_density_a_per_cm2 |->
                    Float(2000),
                footprint_m2_per_mw_input_e |->
                    Float(7000000),
                degradation_rate_pct_per_annum |->
                    Float(125),
                frequency_of_stack_replacement_years |->
                    Float(6000)])])

\* the list display with its two names in the other order
PLANT_CONFIGURATIONS_swapped == <<"PEM_100MW_ENS_2025", "AEC_100MW_ENS_2025">>

\* the list display [AEC_100MW_ENS_2025, PEM_100MW_ENS_2025]
PLANT_CONFIGURATIONS == <<"AEC_100MW_ENS_2025", "PEM_100MW_ENS_2025">>

\* Module load: the two constructor expressions are evaluated and bound,
\* then the list is built from the two bound names and bound.
ModuleLoad ==
    LET a == construct(<<>>, AEC_100MW_ENS_2025)
        p == construct(a.heap, PEM_100MW_ENS_2025)
        bound == [AEC_100MW_ENS_2025 |-> a.val, PEM_100MW_ENS_2025 |-> p.val]
        h == Append(p.heap,
                    Obj("list", "list", <<>>,
                        [i \in 1..Len(PLANT_CONFIGURATIONS) |->
                            bound[PLANT_CONFIGURATIONS[i]]]))
    IN  [heap |-> h,
         module |-> [AEC_100MW_ENS_2025 |-> a.val,
                     PEM_100MW_ENS_2025 |-> p.val,
                     PLANT_CONFIGURATIONS |-> Ref(Len(h))]]

---------------------------------------------------------------------------
(* dataclasses.asdict and as_dict_list *)

\* copy.deepcopy of a value that is no dataclass, list, tuple or dict: a
\* float, a str and None are immutable and copy to themselves
deepcopy_atomic(v) == v

\* _asdict_inner: a dataclass instance becomes a new dict with one item per
\* field, in field order, each value converted recursively; any other value
\* is deep-copied.  The nested dicts are allocated before the dict that
\* holds them.  The result is [heap, val].  As in construct_args, the test
\* Len(r.heap) >= 0 has one field converted before the next is started.
RECURSIVE asdict_inner(_, _), asdict_fields(_, _, _, _)
asdict_inner(h, v) ==
    IF IsRef(v) /\ h[v.n].kind = "dataclass"
    THEN LET r == asdict_fields(h, h[v.n], 1, <<>>)
             h2 == Append(r.heap,
                          Obj("dict", "dict", fields(h[v.n].cls), r.val))
         IN  [heap |-> h2, val |-> Ref(Len(h2))]
    ELSE [heap |-> h, val |-> deepcopy_atomic(v)]

asdict_fields(h, obj, i, acc) ==
    IF i > Len(fields(obj.cls))
    THEN [heap |-> h, val |-> acc]
    ELSE LET r == asdict_inner(h, Get(obj, fields(obj.cls)[i]))
         IN  IF Len(r.heap) >= 0
             THEN asdict_fields(r.heap, obj, i + 1, Append(acc, r.val))
             ELSE r

\* the list comprehension: asdict of each item of the list, in list order,
\* collected into a new list
RECURSIVE asdict_each(_, _, _, _)
asdict_each(h, items, i, acc) ==
    IF i > Len(items)
    THEN [heap |-> h, val |-> acc]
    ELSE LET r == asdict_inner(h, items[i])
         IN  IF Len(r.heap) >= 0
             THEN asdict_each(r.heap, items, i + 1, Append(acc, r.val))
             ELSE r

\* a conversion that copies only the top level of each record:
\* [dict(vars(config)) for config in PLANT_CONFIGURATIONS]
as_dict_list_shallow(h, m) ==
    LET items == h[m.PLANT_CONFIGURATIONS.n].vals
        tops == [i \in 1..Len(items) |->
                    Obj("dict", "dict", h[items[i].n].keys, h[items[i].n].vals)]
        h2 == h \o tops
        h3 == Append(h2, Obj("list", "list", <<>>,
                             [i \in 1..Len(items) |-> Ref(Len(h) + i)]))
    IN  [heap |-> h3, val |-> Ref(Len(h3))]

\* a conversion that keeps its first result and hands it out again
as_dict_list_cached(h, m) ==
    LET made == {a \in 1..Len(h) :
                    /\ a > m.PLANT_CONFIGURATIONS.n
                    /\ h[a].kind = "list"}
        r == asdict_each(h, h[m.PLANT_CONFIGURATIONS.n].vals, 1, <<>>)
        h2 == Append(r.heap, Obj("list", "list", <<>>, r.val))
    IN  IF made # {}
        THEN [heap |-> h, val |-> Ref(CHOOSE a \in made : \A b \in made : a <= b)]
        ELSE [heap |-> h2, val |-> Ref(Len(h2))]

\* a conversion that takes the records out of the catalog as it goes:
\* while PLANT_CONFIGURATIONS: out.append(asdict(PLANT_CONFIGURATIONS.pop(0)))
as_dict_list_consuming(h, m) ==
    LET c == m.PLANT_CONFIGURATIONS.n
        r == asdict_each(h, h[c].vals, 1, <<>>)
        h2 == Append(r.heap, Obj("list", "list", <<>>, r.val))
    IN  [heap |-> [h2 EXCEPT ![c].vals = <<>>], val |-> Ref(Len(h2))]

\* as_dict_list(): reads the module's PLANT_CONFIGURATIONS at call time
as_dict_list(h, m) ==
    LET r == asdict_each(h, h[m.PLANT_CONFIGURATIONS.n].vals, 1, <<>>)
        h2 == Append(r.heap, Obj("list", "list", <<>>, r.val))
    IN  [heap |-> h2, val |-> Ref(Len(h2))]

---------------------------------------------------------------------------
(* Printing *)

Tok(t, s) == [t |-> t, n |-> 0, s |-> s]

NL == Tok("newline", "")

\* the 28 field names in the order sorted() gives them
sorted_keys ==
    <<"current_density_a_per_cm2",
      "degradation_rate_pct_per_annum",
      "electricity_pct_total_input_mwh",
      "energy_technical",
      "financial",
      "footprint_m2_per_mw_input_e",
      "frequency_of_stack_replacement_years",
      "heat_loss_pct_total_input_mwh",
      "heat_output_pct_total_output_mwh",
      "heat_pct_total_input_mwh",
      "hydrogen_ch2_pct_total_output",
      "hydrogen_for_district_heating_pct_points_of_heat_loss",
      "hydrogen_output_pct_total_output_mwh",
      "hydrogen_yield_kg_per_mwh_input_e",
      "input",
      "name",
      "o_and_m_pct_of_specific_investment_per_year",
      "output",
      "oxygen_output_pct_total_output_mwh",
      "oxygen_recovered_for_district_heating_pct_points_of_heat_loss",
      "oxygen_yield_kg_per_mwh_input_e",
      "planned_outage_days_per_annum",
      "specific_investment_eur_per_kg_per_hour_hydrogen_output",
      "specific_investment_eur_per_kw_total_input",
      "technical_lifetime_years",
      "technology_specific",
      "total_plant_size_mw_input_e",
      "water_for_electrolysis_kg_per_mwh_input">>

\* sorted(keys) for keys that are field names
sorted(keys) ==
    SelectSeq(sorted_keys, LAMBDA k : \E i \in 1..Len(keys) : keys[i] = k)

\* pprint.pformat as a token sequence, layout (indentation and the line
\* breaks inside one value) left out: a list is [ items ], a dict is
\* { key value ... } with its keys sorted (pprint's sort_dicts default), a
\* dataclass instance is Class( field value ... ) in field order, any other
\* value is its own token.
RECURSIVE pformat(_, _), pformat_seq(_, _, _, _)
pformat(h, v) ==
    IF ~IsRef(v)
    THEN <<v>>
    ELSE LET obj == h[v.n]
         IN  CASE obj.kind = "list" ->
                    <<Tok("open", "[")>>
                    \o pformat_seq(h, obj, [i \in 1..Len(obj.vals) |-> i], 1)
                    \o <<Tok("close", "]")>>
               [] obj.kind = "dict" ->
                    <<Tok("open", "{")>>
                    \o pformat_seq(h, obj,
                           [i \in 1..Len(obj.keys) |->
                               IndexOf(obj.keys, sorted(obj.keys)[i])], 1)
                    \o <<Tok("close", "}")>>
               [] obj.kind = "dataclass" ->
                    <<Tok("open", obj.cls)>>
                    \o pformat_seq(h, obj, [i \in 1..Len(obj.keys) |-> i], 1)
                    \o <<Tok("close", ")")>>

\* the items of obj in the order given by the index sequence, each after
\* its key (dict) or field name (dataclass)
pformat_seq(h, obj, order, i) ==
    IF i > Len(order)
    THEN <<>>
    ELSE (IF obj.kind = "list" THEN <<>> ELSE <<Tok("key", obj.keys[order[i]])>>)
         \o pformat(h, obj.vals[order[i]])
         \o pformat_seq(h, obj, order, i + 1)

\* pprint(x): the formatted value and the newline that ends it
pprint(h, v) == pformat(h, v) \o <<NL>>

\* print(): an empty line
print_empty == <<NL>>

---------------------------------------------------------------------------
(* Project.py *)

\* the three statements in another order: the records printed first
main_records_first ==
    <<"pprint(PLANT_CONFIGURATIONS)", "print()", "pprint(as_dict_list())">>

\* the three statements followed by one more print()
main_trailing_print ==
    <<"pprint(as_dict_list())", "print()", "pprint(PLANT_CONFIGURATIONS)",
      "print()">>

\* the body of the if __name__ == "__main__" block, statement by statement
main ==
    <<"pprint(as_dict_list())", "print()", "pprint(PLANT_CONFIGURATIONS)">>

\* what one statement of the block writes to standard output; the list
\* as_dict_list() builds for the first statement is dropped once printed
Emit(stmt, h, m) ==
    CASE stmt = "pprint(as_dict_list())" ->
           LET r == as_dict_list(h, m) IN pprint(r.heap, r.val)
      [] stmt = "print()" -> print_empty
      [] stmt = "pprint(PLANT_CONFIGURATIONS)" ->
           pprint(h, m.PLANT_CONFIGURATIONS)

---------------------------------------------------------------------------
(* State *)

\* heap        the objects of the process
\* module      the namespace of module data: its three bound names
\* results     the lists as_dict_list returned to callers that kept them
\* returned    for each kept result, its printed form at the time it was returned
\* mutations   modifications callers made so far to objects handed to them
\* observed    the printed form of the catalog as the last reader saw it
\* exc         the exception raised to a caller and not yet caught: [type, cls]
\* dunder_name __name__ of Project.py: "__main__" when run as the program
\* pc          0 before the if, i at statement i of its block, Len(main) + 1 after
\*
\* Project.py is either run as the program, which ends after the block, or
\* imported by other code, which then uses module data as a caller.
\* stdout      the tokens written to standard output

NoExc == [type |-> "", cls |-> ""]

Catalog(h, m) == h[m.PLANT_CONFIGURATIONS.n]

Init ==
    /\ heap = ModuleLoad.heap
    /\ module = ModuleLoad.module
    /\ results = <<>>
    /\ returned = <<>>
    /\ mutations = 0
    /\ observed = <<>>
    /\ exc = NoExc
    /\ dunder_name \in {"__main__", "Project"}
    /\ pc = 0
    /\ stdout = <<>>

\* the addresses reachable from a value
RECURSIVE Reach(_, _)
Reach(h, v) ==
    IF ~IsRef(v)
    THEN {}
    ELSE {v.n} \cup UNION {Reach(h, h[v.n].vals[i]) : i \in 1..Len(h[v.n].vals)}

---------------------------------------------------------------------------
(* Operations of a caller that imported data *)

\* Project.py was imported, not run: its block was skipped and the
\* importing code goes on to use module data
Imported == pc = Len(main) + 1 /\ dunder_name # "__main__"

\* the caller can make its next call: no exception is propagating
Calling == Imported /\ exc = NoExc

\* values a caller writes when it modifies something
MutVals == {Float(0)}

\* keys a caller overwrites: one of the top-level mapping, one of a nested
\* mapping, one whose value is a nested mapping
MutKeys == {"name", "heat_pct_total_input_mwh", "financial"}

\* a read of data.PLANT_CONFIGURATIONS: the caller sees the list as it is
ReadCatalog ==
    /\ Calling
    /\ observed' = pformat(heap, module.PLANT_CONFIGURATIONS)
    /\ UNCHANGED <<heap, module, results, returned, mutations, exc,
                   dunder_name, pc, stdout>>

\* a call of as_dict_list() whose result the caller keeps
CallAsDictList ==
    /\ Calling
    /\ Len(results) < MaxResults
    /\ LET r == as_dict_list(heap, module)
       IN  /\ heap' = r.heap
           /\ results' = Append(results, r.val)
           /\ returned' = Append(returned, pformat(r.heap, r.val))
    /\ UNCHANGED <<module, mutations, observed, exc, dunder_name, pc, stdout>>

\* instance.field = v on one of the records: the __setattr__ generated for
\* a frozen dataclass raises FrozenInstanceError and stores nothing
SetAttr(a, k, v) ==
    /\ Calling
    /\ heap[a].kind = "dataclass"
    /\ IndexOf(heap[a].keys, k) > 0
    /\ IF frozen(heap[a].cls)
       THEN /\ exc' = [type |-> "FrozenInstanceError", cls |-> heap[a].cls]
            /\ heap' = heap
       ELSE /\ exc' = exc
            /\ heap' = [heap EXCEPT ![a].vals[IndexOf(heap[a].keys, k)] = v]
    /\ UNCHANGED <<module, results, returned, mutations, observed,
                   dunder_name, pc, stdout>>

\* the caller's except clause catches the exception that was raised to it
CatchException ==
    /\ Imported
    /\ exc # NoExc
    /\ exc' = NoExc
    /\ UNCHANGED <<heap, module, results, returned, mutations, observed,
                   dunder_name, pc, stdout>>

\* the mappings and lists a caller reaches through the results it holds
Held == UNION {Reach(heap, results[i]) : i \in 1..Len(results)}

\* d[k] = v on a mapping reached through a result
DictSetItem(a, k, v) ==
    /\ Calling
    /\ mutations < MaxMutations
    /\ heap[a].kind = "dict"
    /\ IndexOf(heap[a].keys, k) > 0
    /\ a \in Held
    /\ heap' = [heap EXCEPT ![a].vals[IndexOf(heap[a].keys, k)] = v]
    /\ mutations' = mutations + 1
    /\ UNCHANGED <<module, results, returned, observed, exc, dunder_name,
                   pc, stdout>>

\* result.pop() on the list as_dict_list returned
ListPop(i) ==
    /\ Calling
    /\ mutations < MaxMutations
    /\ heap[results[i].n].kind = "list"
    /\ Len(heap[results[i].n].vals) > 0
    /\ heap' = [heap EXCEPT ![results[i].n].vals =
                    SubSeq(@, 1, Len(@) - 1)]
    /\ mutations' = mutations + 1
    /\ UNCHANGED <<module, results, returned, observed, exc, dunder_name,
                   pc, stdout>>

---------------------------------------------------------------------------
(* Operations of a caller that writes to the catalog list *)

\* PLANT_CONFIGURATIONS.append(x), x one of the two records
CatalogAppend(x) ==
    /\ Calling
    /\ mutations < MaxMutations
    /\ Len(Catalog(heap, module).vals) < MaxCatalogLen
    /\ heap' = [heap EXCEPT ![module.PLANT_CONFIGURATIONS.n].vals = Append(@, x)]
    /\ mutations' = mutations + 1
    /\ UNCHANGED <<module, results, returned, observed, exc, dunder_name,
                   pc, stdout>>

\* PLANT_CONFIGURATIONS.pop()
CatalogPop ==
    /\ Calling
    /\ mutations < MaxMutations
    /\ Len(Catalog(heap, module).vals) > 0
    /\ heap' = [heap EXCEPT ![module.PLANT_CONFIGURATIONS.n].vals =
                    SubSeq(@, 1, Len(@) - 1)]
    /\ mutations' = mutations + 1
    /\ UNCHANGED <<module, results, returned, observed, exc, dunder_name,
                   pc, stdout>>

\* PLANT_CONFIGURATIONS[i] = x, x one of the two records
CatalogSetItem(i, x) ==
    /\ Calling
    /\ mutations < MaxMutations
    /\ i \in 1..Len(Catalog(heap, module).vals)
    /\ heap' = [heap EXCEPT ![module.PLANT_CONFIGURATIONS.n].vals[i] = x]
    /\ mutations' = mutations + 1
    /\ UNCHANGED <<module, results, returned, observed, exc, dunder_name,
                   pc, stdout>>

\* PLANT_CONFIGURATIONS.reverse()
CatalogReverse ==
    /\ Calling
    /\ mutations < MaxMutations
    /\ heap' = [heap EXCEPT ![module.PLANT_CONFIGURATIONS.n].vals =
                    [j \in 1..Len(@) |-> @[Len(@) + 1 - j]]]
    /\ mutations' = mutations + 1
    /\ UNCHANGED <<module, results, returned, observed, exc, dunder_name,
                   pc, stdout>>

---------------------------------------------------------------------------
(* Project.py *)

\* if __name__ == "__main__": enter the block, or skip it
MainGuard ==
    /\ pc = 0
    /\ pc' = IF dunder_name = "__main__" THEN 1 ELSE Len(main) + 1
    /\ UNCHANGED <<heap, module, results, returned, mutations, observed, exc,
                   dunder_name, stdout>>

\* the next statement of the block
MainStatement ==
    /\ pc \in 1..Len(main)
    /\ stdout' = stdout \o Emit(main[pc], heap, module)
    /\ pc' = pc + 1
    /\ UNCHANGED <<heap, module, results, returned, mutations, observed, exc,
                   dunder_name>>

---------------------------------------------------------------------------
(* Specifications *)

Records == {module.AEC_100MW_ENS_2025, module.PEM_100MW_ENS_2025}

Next ==
    \/ ReadCatalog
    \/ CallAsDictList
    \/ \E a \in 1..Len(heap), k \in {sorted_keys[j] : j \in 1..Len(sorted_keys)}, v \in MutVals :
          SetAttr(a, k, v)
    \/ CatchException
    \/ \E a \in 1..Len(heap), k \in MutKeys, v \in MutVals :
          DictSetItem(a, k, v)
    \/ \E i \in 1..Len(results) : ListPop(i)
    \/ MainGuard
    \/ MainStatement

\* the documented use of the module: reads, conversions, the entry point,
\* and callers working on what they were handed
Spec == Init /\ [][Next]_vars

NextMisuse ==
    \/ Next
    \/ \E x \in Records : CatalogAppend(x)
    \/ CatalogPop
    \/ \E i \in 1..MaxCatalogLen, x \in Records : CatalogSetItem(i, x)
    \/ CatalogReverse

\* the same, with callers that also write to the list PLANT_CONFIGURATIONS
SpecMisuse == Init /\ [][NextMisuse]_vars

---------------------------------------------------------------------------
(* Helpers of the properties *)

\* the value at the end of a path of field names or keys
RECURSIVE At(_, _, _)
At(h, v, path) ==
    IF path = <<>> THEN v ELSE At(h, Get(h[v.n], Head(path)), Tail(path))

\* the state module load left behind
Loaded == ModuleLoad

\* the objects module load created are all as module load left them
RecordsIntact ==
    /\ Len(heap) >= Len(Loaded.heap)
    /\ SubSeq(heap, 1, Len(Loaded.heap)) = Loaded.heap
    /\ module = Loaded.module

\* mapping value map mirrors record value rec: a record is mirrored by a
\* dict whose keys are exactly the record's field names and whose value at
\* each key mirrors the field; any other value is mirrored by itself
RECURSIVE Mirrors(_, _, _)
Mirrors(h, rec, map) ==
    IF IsRef(rec) /\ h[rec.n].kind = "dataclass"
    THEN /\ IsRef(map)
         /\ h[map.n].kind = "dict"
         /\ h[map.n].keys = fields(h[rec.n].cls)
         /\ Len(h[map.n].vals) = Len(h[map.n].keys)
         /\ \A i \in 1..Len(h[map.n].keys) :
               Mirrors(h, Get(h[rec.n], h[map.n].keys[i]),
                          Get(h[map.n], h[map.n].keys[i]))
    ELSE map = rec

\* result list r mirrors the catalog entry by entry, in catalog order
MirrorsCatalog(h, m, r) ==
    /\ h[r.n].kind = "list"
    /\ Len(h[r.n].vals) = Len(Catalog(h, m).vals)
    /\ \A i \in 1..Len(h[r.n].vals) :
          Mirrors(h, Catalog(h, m).vals[i], h[r.n].vals[i])

HeatPath == <<"energy_technical", "input", "heat_pct_total_input_mwh">>

\* the key heat_pct_total_input_mwh is present in the input mapping of
\* entry i of result r and maps to None
HeatKeyNull(h, r, i) ==
    LET inp == At(h, h[r.n].vals[i], <<"energy_technical", "input">>)
    IN  /\ IsRef(inp)
        /\ IndexOf(h[inp.n].keys, "heat_pct_total_input_mwh") > 0
        /\ Get(h[inp.n], "heat_pct_total_input_mwh") = None
        /\ Get(h[inp.n], "heat_pct_total_input_mwh") # Float(0)

RunAsProgram == dunder_name = "__main__"

Finished == pc = Len(main) + 1

\* the two printed forms, without the newline that ends each
MappingForm ==
    LET r == as_dict_list(heap, module) IN pformat(r.heap, r.val)

NativeForm == pformat(heap, module.PLANT_CONFIGURATIONS)

\* the positions of the empty lines of an output
BlankLines(out) ==
    {i \in 1..Len(out) : out[i] = NL /\ (i = 1 \/ out[i - 1] = NL)}

\* the line after the one that ends at position e is empty
BlankLineAfter(out, e) ==
    /\ Len(out) >= e + 1
    /\ out[e] = NL
    /\ out[e + 1] = NL

---------------------------------------------------------------------------
(* Properties *)

\* C1: after module load and after any sequence of catalog reads,
\* as_dict_list calls and entry-point runs, PLANT_CONFIGURATIONS holds
\* exactly two entries, the record named "AEC 100 MW (ENS, 2025)" at index 0
\* and the record named "PEM 100 MW (ENS, 2025)" at index 1.
C1_CatalogTwoInOrder ==
    LET items == Catalog(heap, module).vals
    IN  /\ Len(items) = 2
        /\ \A i \in 1..2 : IsRef(items[i]) /\ heap[items[i].n].kind = "dataclass"
        /\ heap[items[1].n].cls = "PlantConfiguration"
        /\ heap[items[2].n].cls = "PlantConfiguration"
        /\ Get(heap[items[1].n], "name") = Str("AEC 100 MW (ENS, 2025)")
        /\ Get(heap[items[2].n], "name") = Str("PEM 100 MW (ENS, 2025)")

\* a caller has read the catalog and converted it, and it has two entries
C1_Witness ==
    /\ observed # <<>>
    /\ Len(results) >= 1
    /\ Len(Catalog(heap, module).vals) = 2

\* C2: nothing a caller does to the exposed PLANT_CONFIGURATIONS sequence
\* (adding, removing, replacing, reordering an entry) changes it: the catalog
\* stays the two records of module load, and every as_dict_list result and
\* every read shows those two records.
C2_CatalogNeverAltered ==
    /\ Catalog(heap, module).vals = Catalog(Loaded.heap, Loaded.module).vals
    /\ \A i \in 1..Len(returned) :
          returned[i] = LET r == as_dict_list(Loaded.heap, Loaded.module)
                        IN  pformat(r.heap, r.val)
    /\ observed \in {<<>>, pformat(Loaded.heap, Loaded.module.PLANT_CONFIGURATIONS)}

\* C3: an attempt to assign to an existing field of a record of any of the
\* six classes, at any nesting level, raises FrozenInstanceError and leaves
\* every object, the records and the catalog among them, as it was.
C3_AssignmentFails ==
    [][\A a \in {b \in 1..Len(heap) : heap[b].kind = "dataclass"} :
          \A i \in 1..Len(heap[a].keys), v \in MutVals :
             SetAttr(a, heap[a].keys[i], v) =>
                /\ exc' = [type |-> "FrozenInstanceError", cls |-> heap[a].cls]
                /\ heap' = heap
                /\ module' = module]_vars

\* an assignment to a field of the innermost record was attempted and failed
C3_Witness ==
    /\ exc.type = "FrozenInstanceError"
    /\ exc.cls = "InputData"
    /\ RecordsIntact

\* C4: a result of as_dict_list that no caller has modified has one mapping
\* per catalog entry in catalog order; each mapping has exactly the record's
\* field names as keys, nested records being nested mappings, and the value
\* at each key is the record's field value; heat_pct_total_input_mwh is a
\* key of both mappings and maps to None, not to zero.
C4_RoundTrip ==
    mutations = 0 =>
        \A i \in 1..Len(results) :
            /\ MirrorsCatalog(heap, module, results[i])
            /\ Len(heap[results[i].n].vals) = 2
            /\ \A e \in 1..2 : HeatKeyNull(heap, results[i], e)

\* an unmodified result mirrors the catalog and its heat key maps to None
C4_Witness ==
    /\ Len(results) >= 1
    /\ mutations = 0
    /\ MirrorsCatalog(heap, module, results[1])
    /\ At(heap, heap[results[1].n].vals[2], HeatPath) = None

\* C5: any two results of as_dict_list were equal in value when returned,
\* no object is part of two results, and one modification of a result
\* changes the value of at most that result.
C5_Idempotent ==
    /\ \A i, j \in 1..Len(returned) : returned[i] = returned[j]
    /\ \A i, j \in 1..Len(results) :
          i # j => Reach(heap, results[i]) \cap Reach(heap, results[j]) = {}
    /\ Cardinality({i \in 1..Len(results) :
                       pformat(heap, results[i]) # returned[i]}) <= mutations

\* two results were returned equal, a caller modified the first, and the
\* second is still what was returned
C5_Witness ==
    /\ Len(results) = 2
    /\ returned[1] = returned[2]
    /\ mutations >= 1
    /\ pformat(heap, results[1]) # returned[1]
    /\ pformat(heap, results[2]) = returned[2]

\* C6: in any sequence of catalog reads and as_dict_list calls, also with
\* callers modifying the mappings they were returned, the catalog and every
\* field of every record stay as module load left them, and every read of
\* the catalog shows the same values.
C6_AccessorsPure ==
    /\ RecordsIntact
    /\ observed \in {<<>>, pformat(Loaded.heap, Loaded.module.PLANT_CONFIGURATIONS)}
    /\ Held \cap 1..Len(Loaded.heap) = {}

\* a caller converted the catalog, modified a mapping it was returned, and
\* read the catalog
C6_Witness ==
    /\ Len(results) >= 1
    /\ mutations >= 1
    /\ \E i \in 1..Len(results) : pformat(heap, results[i]) # returned[i]
    /\ observed = NativeForm

\* C7: the AEC configuration is the catalog's entry at index 0 and has name
\* "AEC 100 MW (ENS, 2025)", plant size 100.0, no heat percentage (None,
\* not zero), hydrogen yield 20.00, specific investment 1161.3 per kW and
\* current density 0.5.
C7_AecValues ==
    LET aec == module.AEC_100MW_ENS_2025
    IN  /\ Len(Catalog(heap, module).vals) >= 1
        /\ Catalog(heap, module).vals[1] = aec
        /\ At(heap, aec, <<"name">>) = Str("AEC 100 MW (ENS, 2025)")
        /\ At(heap, aec, <<"energy_technical", "total_plant_size_mw_input_e">>)
              = Float(100000)
        /\ At(heap, aec, HeatPath) = None
        /\ At(heap, aec, HeatPath) # Float(0)
        /\ At(heap, aec, <<"energy_technical", "output",
                           "hydrogen_yield_kg_per_mwh_input_e">>) = Float(20000)
        /\ At(heap, aec, <<"financial",
                           "specific_investment_eur_per_kw_total_input">>)
              = Float(1161300)
        /\ At(heap, aec, <<"technology_specific", "current_density_a_per_cm2">>)
              = Float(500)

\* callers have used the module and the AEC heat percentage is None
C7_Witness ==
    /\ Imported
    /\ Len(results) >= 1
    /\ exc.cls = "InputData"
    /\ At(heap, Catalog(heap, module).vals[1], HeatPath) = None

\* C8: the PEM configuration is the catalog's entry at index 1 and has name
\* "PEM 100 MW (ENS, 2025)", hydrogen yield 20.95, specific investment
\* 6876.8 per kg/h of hydrogen output and stack replacement every 6.0 years.
C8_PemValues ==
    LET pem == module.PEM_100MW_ENS_2025
    IN  /\ Len(Catalog(heap, module).vals) >= 2
        /\ Catalog(heap, module).vals[2] = pem
        /\ At(heap, pem, <<"name">>) = Str("PEM 100 MW (ENS, 2025)")
        /\ At(heap, pem, <<"energy_technical", "output",
                           "hydrogen_yield_kg_per_mwh_input_e">>) = Float(20950)
        /\ At(heap, pem, <<"financial",
                "specific_investment_eur_per_kg_per_hour_hydrogen_output">>)
              = Float(6876800)
        /\ At(heap, pem, <<"technology_specific",
                           "frequency_of_stack_replacement_years">>) = Float(6000)

\* callers have used the module and the PEM stack interval is 6.0
C8_Witness ==
    /\ Imported
    /\ Len(results) >= 1
    /\ exc.cls = "TechnologySpecificData"
    /\ At(heap, Catalog(heap, module).vals[2],
          <<"technology_specific", "frequency_of_stack_replacement_years">>)
          = Float(6000)

\* C9: a run of the entry point writes the mapping form of the catalog, then
\* an empty line, then the native record form, and nothing else in between;
\* at every point of the run the output is a prefix of that, so the native
\* form never precedes the mapping form; until it has finished the run is at
\* the if or at a statement of the block, which are the guards of its two
\* steps, and no exception was raised; an imported Project.py prints nothing.
C9_OutputOrder ==
    LET expected == MappingForm \o <<NL>> \o <<NL>> \o NativeForm \o <<NL>>
    IN  /\ RunAsProgram =>
              /\ Len(stdout) <= Len(expected)
              /\ stdout = SubSeq(expected, 1, Len(stdout))
              /\ Finished => stdout = expected
              /\ ~Finished => pc = 0 \/ pc \in 1..Len(main)
              /\ exc = NoExc
        /\ ~RunAsProgram => stdout = <<>>

\* a run of the entry point has finished and has printed both forms
C9_Witness ==
    /\ RunAsProgram
    /\ Finished
    /\ Len(stdout) > Len(MappingForm) + Len(NativeForm)

\* C10 as stated: in a finished run an empty line follows the mapping form
\* and an empty line follows the native record form.
C10_BlankAfterEachForm ==
    (RunAsProgram /\ Finished) =>
        /\ BlankLineAfter(stdout, Len(MappingForm) + 1)
        /\ BlankLineAfter(stdout, Len(MappingForm) + 2 + Len(NativeForm) + 1)

\* C10: in a finished run an empty line follows the mapping form only: the
\* native record form and the newline that ends it are the end of the
\* output, and the output has exactly one empty line.
C10_BlankAfterMappingOnly ==
    (RunAsProgram /\ Finished) =>
        /\ BlankLineAfter(stdout, Len(MappingForm) + 1)
        /\ Len(stdout) = Len(MappingForm) + 2 + Len(NativeForm) + 1
        /\ stdout[Len(stdout)] = NL
        /\ stdout[Len(stdout) - 1] # NL
        /\ BlankLines(stdout) = {Len(MappingForm) + 2}

\* a run has finished with one empty line in its output
C10_Witness ==
    /\ RunAsProgram
    /\ Finished
    /\ Cardinality(BlankLines(stdout)) = 1

====
